---- MODULE Spec2Model ----
(***************************************************************************)
(* Model of the unicast BACnet/IP objectList reader (ClientApplication and *)
(* main) in its four variants:                                             *)
(*   py4       src/py4.py                       kickoff via deferred()     *)
(*   py3       src/py3.py                       kickoff on first indication*)
(*   unicast   src/read_object_list_unicast.py  kickoff on first indication*)
(*   unicast2  src/read_object_list_unicast2.py kickoff on first indication*)
(*                                                                         *)
(* The BACpypes stack is the environment: while the event loop runs it may *)
(* call indication(apdu) and confirmation(apdu) with any APDU, solicited   *)
(* or not.  A confirmed request that the stack gives up on reaches         *)
(* confirmation() as an AbortPDU with reason "noResponse"; an unconfirmed  *)
(* request (Who-Is) has no timer at all.                                   *)
(***************************************************************************)
EXTENDS Integers, Sequences, FiniteSets, TLC

\* ------------------------------------------------------------------ bounds
MaxLen  == 2     \* longest objectList carried by a ReadPropertyACK
MaxRecv == 3     \* APDUs handed to confirmation() in one session
MaxInd  == 2     \* APDUs handed to indication() in one session

\* ------------------------------------------------------------- input sets
None         == -1                    \* Python None for device_instance
Variants     == {"py4", "py3", "unicast", "unicast2"}
Instances    == {1, 2}
Targets      == {"10.0.0.5:47808", "10.0.0.6:47810"}
ObjectTypes  == {"analogInput", "device"}
ObjectIds    == ObjectTypes \X {1}
NotAnArray   == <<"Unsigned">>        \* a propertyValue that is no ArrayOf
NotExited    == -1

RECURSIVE SeqsUpTo(_, _)
SeqsUpTo(S, n) ==
    IF n = 0 THEN {<<>>}
    ELSE LET shorter == SeqsUpTo(S, n - 1)
         IN  shorter \cup {Append(s, x) : s \in {t \in shorter : Len(t) = n - 1}, x \in S}

ArrayValues  == [isArrayOf : {TRUE}, value : SeqsUpTo(ObjectIds, MaxLen)]
OtherValues  == [isArrayOf : {FALSE}, value : {NotAnArray}]

ErrorTypes   == {"Error", "AbortPDU", "RejectPDU"}

\* APDUs the stack can hand to confirmation()
Apdus ==
    [type : {"IAmRequest"}, iAmDeviceIdentifier : {"device"} \X Instances,
     propertyValue : OtherValues, reason : {""}]
    \cup
    [type : {"ReadPropertyACK"}, iAmDeviceIdentifier : {<<"device", 0>>},
     propertyValue : ArrayValues \cup OtherValues, reason : {""}]
    \cup
    [type : {"Error", "RejectPDU"}, iAmDeviceIdentifier : {<<"device", 0>>},
     propertyValue : OtherValues, reason : {"other"}]
    \cup
    [type : {"AbortPDU"}, iAmDeviceIdentifier : {<<"device", 0>>},
     propertyValue : OtherValues, reason : {"noResponse", "other"}]
    \cup
    [type : {"SimpleAckPDU"}, iAmDeviceIdentifier : {<<"device", 0>>},
     propertyValue : OtherValues, reason : {""}]

\* APDUs the stack can hand to indication()
IndicationApdus == {"WhoIsRequest", "IAmRequest"}

VARIABLES
    variant,                \* which of the four scripts runs
    target,                 \* self.target
    known_device_instance,  \* self.known_device_instance (None or an int)
    indication,             \* "override" | "default": what self.indication is bound to
    deferredFns,            \* bacpypes.core deferred functions not yet run
    running,                \* the event loop of run() is running
    pc,                     \* main: "run" | "exited"
    exitStatus,             \* process exit status, NotExited before exit
    interrupted,            \* a KeyboardInterrupt ended run()
    sent,                   \* every request passed to self.request(), in order
    outstanding,            \* requests sent whose outcome was not yet delivered
    output,                 \* lines logged/printed for the object list
    stopCount,              \* calls of stop()
    kickoffCount,           \* calls of the kickoff method
    received,               \* APDUs handled by confirmation(), in order
    indications,            \* APDUs handled by indication(), in order
    forwarded,              \* APDUs passed on to super().confirmation/indication
    olReadOutcome,          \* "none" | "success" | "mismatch" | "failed"
    discoveryFailed,        \* Error/Abort/Reject arrived with only the Who-Is sent
    decoded                 \* value.value of the ArrayOf that was printed

vars == <<variant, target, known_device_instance, indication, deferredFns,
          running, pc, exitStatus, interrupted, sent, outstanding, output,
          stopCount, kickoffCount, received, indications, forwarded,
          olReadOutcome, discoveryFailed, decoded>>

config == <<variant, target, known_device_instance>>

\* ---------------------------------------------------------------- requests
WhoIsRequest(tgt) ==
    [type |-> "WhoIsRequest", objectIdentifier |-> <<"", 0>>,
     propertyIdentifier |-> "", pduDestination |-> tgt]

_read_object_list_no_destination(device_instance, tgt) ==
    [type |-> "ReadPropertyRequest",
     objectIdentifier |-> <<"device", device_instance>>,
     propertyIdentifier |-> "objectList", pduDestination |-> ""]

\* py4._read_object_list / unicast.read_object_list: the request it builds
_read_object_list(device_instance, tgt) ==
    [type |-> "ReadPropertyRequest",
     objectIdentifier |-> <<"device", device_instance>>,
     propertyIdentifier |-> "objectList", pduDestination |-> tgt]

_kickoff_always_who_is(known, tgt) == WhoIsRequest(tgt)

\* _kickoff / kickoff / request_device_information: the request it sends
_kickoff(known, tgt) ==
    IF known # None THEN _read_object_list(known, tgt)
    ELSE WhoIsRequest(tgt)

\* the outcome of the oldest pending request of this kind has been delivered
RECURSIVE Resolve(_, _)
Resolve(out, kind) ==
    IF out = <<>> THEN <<>>
    ELSE IF Head(out) = kind THEN Tail(out)
    ELSE <<Head(out)>> \o Resolve(Tail(out), kind)

Pending(kind) == \E i \in 1..Len(outstanding) : outstanding[i] = kind

\* ------------------------------------------------------------------ output
Header == [idx |-> 0, text |-> <<"--- Object List start ---">>]
Footer == [idx |-> 0, text |-> <<"--- Object List end ---">>]

\* f"{obj[0]}:{obj[1]}"
FormatObject(obj) == <<obj[1], ":", obj[2]>>

RECURSIVE ObjectLines_reversed(_, _)
ObjectLines_reversed(objs, idx) ==
    IF objs = <<>> THEN <<>>
    ELSE ObjectLines_reversed(Tail(objs), idx + 1)
         \o <<[idx |-> idx, text |-> FormatObject(Head(objs))]>>

\* for idx, obj in enumerate(value.value, 1): log("%3d. %s:%d", idx, ...)
RECURSIVE ObjectLines(_, _)
ObjectLines(objs, idx) ==
    IF objs = <<>> THEN <<>>
    ELSE <<[idx |-> idx, text |-> FormatObject(Head(objs))]>>
         \o ObjectLines(Tail(objs), idx + 1)

PrintObjectList(value) == <<Header>> \o ObjectLines(value, 1) \o <<Footer>>

\* ------------------------------------------------------------------- state
Init ==
    /\ variant \in Variants
    /\ target \in Targets
    /\ known_device_instance \in Instances \cup {None}
    /\ indication = IF variant = "py4" THEN "default" ELSE "override"
    /\ deferredFns = IF variant = "py4" THEN <<"_kickoff">> ELSE <<>>
    /\ running = TRUE
    /\ pc = "run"
    /\ exitStatus = NotExited
    /\ interrupted = FALSE
    /\ sent = <<>>
    /\ outstanding = <<>>
    /\ output = <<>>
    /\ stopCount = 0
    /\ kickoffCount = 0
    /\ received = <<>>
    /\ indications = <<>>
    /\ forwarded = 0
    /\ olReadOutcome = "none"
    /\ discoveryFailed = FALSE
    /\ decoded = <<>>

\* self.request(req)
request(req) ==
    /\ sent' = Append(sent, req)
    /\ outstanding' = Append(outstanding, req.type)

\* bacpypes.core.stop()
stop ==
    /\ running' = FALSE
    /\ stopCount' = stopCount + 1

\* py4: the function scheduled by deferred(self._kickoff) runs in the loop
DeferredKickoff ==
    /\ pc = "run" /\ running
    /\ deferredFns # <<>>
    /\ deferredFns' = Tail(deferredFns)
    /\ kickoffCount' = kickoffCount + 1
    /\ request(_kickoff(known_device_instance, target))
    /\ UNCHANGED <<config, indication, running, pc, exitStatus, interrupted,
                   output, stopCount, received, indications, forwarded,
                   olReadOutcome, discoveryFailed, decoded>>

FirstIndication_no_restore ==
    /\ pc = "run" /\ running
    /\ indication = "override"
    /\ Len(indications) < MaxInd
    /\ \E apdu \in IndicationApdus :
         /\ indication' = indication
         /\ kickoffCount' = kickoffCount + 1
         /\ request(_kickoff(known_device_instance, target))
         /\ indications' = Append(indications, apdu)
         /\ forwarded' = forwarded + 1
    /\ UNCHANGED <<config, deferredFns, running, pc, exitStatus, interrupted,
                   output, stopCount, received, olReadOutcome,
                   discoveryFailed, decoded>>

\* py3/unicast/unicast2: the overriding indication(), bound until its first call
FirstIndication ==
    /\ pc = "run" /\ running
    /\ indication = "override"
    /\ Len(indications) < MaxInd
    /\ \E apdu \in IndicationApdus :
         /\ indication' = "default"
         /\ kickoffCount' = kickoffCount + 1
         /\ request(_kickoff(known_device_instance, target))
         /\ indications' = Append(indications, apdu)
         /\ forwarded' = forwarded + 1
    /\ UNCHANGED <<config, deferredFns, running, pc, exitStatus, interrupted,
                   output, stopCount, received, olReadOutcome,
                   discoveryFailed, decoded>>

\* BIPSimpleApplication.indication once self.indication is the default again
DefaultIndication ==
    /\ pc = "run" /\ running
    /\ indication = "default"
    /\ Len(indications) < MaxInd
    /\ \E apdu \in IndicationApdus :
         /\ indications' = Append(indications, apdu)
         /\ forwarded' = forwarded + 1
    /\ UNCHANGED <<config, indication, deferredFns, running, pc, exitStatus,
                   interrupted, sent, outstanding, output, stopCount,
                   kickoffCount, received, olReadOutcome, discoveryFailed,
                   decoded>>

\* confirmation(): isinstance(apdu, IAmRequest)
on_i_am(apdu) ==
    /\ sent' = Append(sent, _read_object_list(apdu.iAmDeviceIdentifier[2], target))
    /\ outstanding' = Append(Resolve(outstanding, "WhoIsRequest"),
                             "ReadPropertyRequest")
    /\ UNCHANGED <<running, stopCount, output, forwarded, olReadOutcome,
                   discoveryFailed, decoded>>

on_ack_keeps_running(apdu) ==
    /\ output' = IF apdu.propertyValue.isArrayOf
                 THEN output \o PrintObjectList(apdu.propertyValue.value)
                 ELSE output
    /\ decoded' = IF apdu.propertyValue.isArrayOf
                  THEN apdu.propertyValue.value ELSE decoded
    /\ olReadOutcome' =
         IF ~Pending("ReadPropertyRequest") THEN olReadOutcome
         ELSE IF apdu.propertyValue.isArrayOf THEN "success" ELSE "mismatch"
    /\ outstanding' = Resolve(outstanding, "ReadPropertyRequest")
    /\ UNCHANGED <<running, stopCount, sent, forwarded, discoveryFailed>>

on_ack_prints_any_value(apdu) ==
    /\ output' = output \o PrintObjectList(IF apdu.propertyValue.isArrayOf
                                            THEN apdu.propertyValue.value
                                            ELSE <<>>)
    /\ decoded' = IF apdu.propertyValue.isArrayOf
                  THEN apdu.propertyValue.value ELSE decoded
    /\ olReadOutcome' =
         IF ~Pending("ReadPropertyRequest") THEN olReadOutcome
         ELSE IF apdu.propertyValue.isArrayOf THEN "success" ELSE "mismatch"
    /\ outstanding' = Resolve(outstanding, "ReadPropertyRequest")
    /\ stop
    /\ UNCHANGED <<sent, forwarded, discoveryFailed>>

\* confirmation(): isinstance(apdu, ReadPropertyACK)
on_ack(apdu) ==
    /\ output' = IF apdu.propertyValue.isArrayOf
                 THEN output \o PrintObjectList(apdu.propertyValue.value)
                 ELSE output
    /\ decoded' = IF apdu.propertyValue.isArrayOf
                  THEN apdu.propertyValue.value ELSE decoded
    /\ olReadOutcome' =
         IF ~Pending("ReadPropertyRequest") THEN olReadOutcome
         ELSE IF apdu.propertyValue.isArrayOf THEN "success" ELSE "mismatch"
    /\ outstanding' = Resolve(outstanding, "ReadPropertyRequest")
    /\ stop
    /\ UNCHANGED <<sent, forwarded, discoveryFailed>>

on_error_keeps_running(apdu) ==
    /\ olReadOutcome' =
         IF Pending("ReadPropertyRequest") THEN "failed" ELSE olReadOutcome
    /\ discoveryFailed' =
         (discoveryFailed \/ (known_device_instance = None
                              /\ sent = <<WhoIsRequest(target)>>))
    /\ outstanding' = Resolve(outstanding, "ReadPropertyRequest")
    /\ UNCHANGED <<running, stopCount, sent, output, forwarded, decoded>>

on_error_retries(apdu) ==
    /\ olReadOutcome' =
         IF Pending("ReadPropertyRequest") THEN "failed" ELSE olReadOutcome
    /\ discoveryFailed' =
         (discoveryFailed \/ (known_device_instance = None
                              /\ sent = <<WhoIsRequest(target)>>))
    /\ sent' = IF sent = <<>> THEN sent ELSE Append(sent, sent[Len(sent)])
    /\ outstanding' = outstanding
    /\ stop
    /\ UNCHANGED <<output, forwarded, decoded>>

\* confirmation(): isinstance(apdu, (Error, AbortPDU, RejectPDU))
on_error(apdu) ==
    /\ olReadOutcome' =
         IF Pending("ReadPropertyRequest") THEN "failed" ELSE olReadOutcome
    /\ discoveryFailed' =
         (discoveryFailed \/ (known_device_instance = None
                              /\ sent = <<WhoIsRequest(target)>>))
    /\ outstanding' = Resolve(outstanding, "ReadPropertyRequest")
    /\ stop
    /\ UNCHANGED <<sent, output, forwarded, decoded>>

\* confirmation(): else: super().confirmation(apdu)
super_confirmation(apdu) ==
    /\ forwarded' = forwarded + 1
    /\ UNCHANGED <<running, stopCount, sent, outstanding, output,
                   olReadOutcome, discoveryFailed, decoded>>

\* ClientApplication.confirmation(apdu), called by the stack from the loop
confirmation ==
    /\ pc = "run" /\ running
    /\ Len(received) < MaxRecv
    /\ \E apdu \in Apdus :
         /\ received' = Append(received, apdu)
         /\ CASE apdu.type = "IAmRequest"      -> on_i_am(apdu)
              [] apdu.type = "ReadPropertyACK" -> on_ack(apdu)
              [] apdu.type \in ErrorTypes      -> on_error(apdu)
              [] OTHER                         -> super_confirmation(apdu)
    /\ UNCHANGED <<config, indication, deferredFns, pc, exitStatus,
                   interrupted, kickoffCount, indications>>

\* Ctrl-C while run() blocks: the loop ends, main's except clause absorbs it
KeyboardInterrupt ==
    /\ pc = "run" /\ running
    /\ running' = FALSE
    /\ interrupted' = TRUE
    /\ UNCHANGED <<config, indication, deferredFns, pc, exitStatus, sent,
                   outstanding, output, stopCount, kickoffCount, received,
                   indications, forwarded, olReadOutcome, discoveryFailed,
                   decoded>>

MainReturn_reraises ==
    /\ pc = "run" /\ ~running
    /\ pc' = "exited"
    /\ exitStatus' = IF interrupted THEN 1 ELSE 0
    /\ UNCHANGED <<config, indication, deferredFns, running, interrupted, sent,
                   outstanding, output, stopCount, kickoffCount, received,
                   indications, forwarded, olReadOutcome, discoveryFailed,
                   decoded>>

\* main(): run() has returned, main falls off its end, the process exits 0
MainReturn ==
    /\ pc = "run" /\ ~running
    /\ pc' = "exited"
    /\ exitStatus' = 0
    /\ UNCHANGED <<config, indication, deferredFns, running, interrupted, sent,
                   outstanding, output, stopCount, kickoffCount, received,
                   indications, forwarded, olReadOutcome, discoveryFailed,
                   decoded>>

Next ==
    \/ DeferredKickoff
    \/ FirstIndication
    \/ DefaultIndication
    \/ confirmation
    \/ KeyboardInterrupt
    \/ MainReturn

Spec == Init /\ [][Next]_vars

\* The loop runs what was deferred and main continues once run() returns;
\* nothing obliges the remote device or the user to act.
FairSpec == Spec /\ WF_vars(DeferredKickoff) /\ WF_vars(MainReturn)


\* --------------------------------------------------------------- properties
IsRead(req)     == req.type = "ReadPropertyRequest"
IsWhoIs(req)    == req.type = "WhoIsRequest"
IsNameRead(req) == IsRead(req) /\ req.propertyIdentifier = "objectName"
IsIAm(apdu)     == apdu.type = "IAmRequest"
IsEntry(line)   == line.idx # 0

ReadsSent     == SelectSeq(sent, IsRead)
NameReadsSent == SelectSeq(sent, IsNameRead)
IAmsReceived  == SelectSeq(received, IsIAm)
Entries       == SelectSeq(output, IsEntry)

\* C1: at most one request sent by the client is outstanding in every
\* reachable state, whatever I-Am, ACK, Error, Abort or Reject arrives,
\* duplicated or unsolicited I-Am included.
C1_AtMostOneOutstanding == Len(outstanding) <= 1

\* C2: when a device instance is supplied at session start no Who-Is is ever
\* sent, and the kickoff sends the objectList read for that instance.
C2_NoWhoIsWhenKnown ==
    known_device_instance # None =>
        /\ \A i \in 1..Len(sent) : ~IsWhoIs(sent[i])
        /\ kickoffCount > 0 =>
             \E i \in 1..Len(sent) :
                 sent[i] = [type |-> "ReadPropertyRequest",
                            objectIdentifier |-> <<"device", known_device_instance>>,
                            propertyIdentifier |-> "objectList",
                            pduDestination |-> target]

C2_Witness ==
    /\ known_device_instance # None
    /\ kickoffCount = 1
    /\ Len(IAmsReceived) >= 1
    /\ Len(sent) >= 2

\* C3: after a successful objectList retrieval of length n the emitted result
\* has exactly n entries, entry i being object i of the reported list.
C3_OutputMatchesObjectList ==
    olReadOutcome = "success" =>
        /\ Len(Entries) = Len(decoded)
        /\ \A i \in 1..Len(Entries) :
             /\ Entries[i].idx = i
             /\ Entries[i].text[1] = decoded[i][1]
             /\ Entries[i].text[3] = decoded[i][2]

C3_Witness ==
    /\ olReadOutcome = "success"
    /\ Len(decoded) = 2
    /\ decoded[1] # decoded[2]
    /\ Len(Entries) = 2

\* C4: when the objectList read ends with Error, Abort, Reject or a timeout
\* (AbortPDU noResponse) the event loop is stopped and no objectName read is
\* ever sent.
C4_ObjectListFailureTerminates ==
    olReadOutcome = "failed" =>
        /\ ~running
        /\ stopCount = 1
        /\ NameReadsSent = <<>>

C4_Witness ==
    /\ olReadOutcome = "failed"
    /\ received[Len(received)].type = "AbortPDU"
    /\ received[Len(received)].reason = "noResponse"
    /\ pc = "exited"

\* C5 (as stated): once the session has stopped after a successful objectList
\* retrieval, an objectName read was sent for every object identifier of the
\* list, once each and in list order.
C5_NameReadForEveryObject ==
    (olReadOutcome = "success" /\ ~running /\ ~interrupted) =>
        /\ Len(NameReadsSent) = Len(decoded)
        /\ \A i \in 1..Len(NameReadsSent) :
             NameReadsSent[i].objectIdentifier = decoded[i]

\* C5 (amended): a successful objectList retrieval prints the list and stops
\* the event loop in the same step; no objectName read is sent for any object.
C5_StopsAfterObjectList ==
    olReadOutcome = "success" =>
        /\ ~running
        /\ stopCount = 1
        /\ output = <<Header>> \o Entries \o <<Footer>>
        /\ NameReadsSent = <<>>

C5_Witness ==
    /\ olReadOutcome = "success"
    /\ Len(decoded) = MaxLen
    /\ pc = "exited"
    /\ ~interrupted

\* C7: with no instance supplied, once the Who-Is is sent and no I-Am ever
\* arrives, the session eventually terminates instead of waiting forever.
C7_DiscoveryTimeoutTerminates ==
    (known_device_instance = None /\ Len(sent) > 0 /\ IsWhoIs(sent[1]))
        ~> (~running \/ IAmsReceived # <<>>)

\* C8: when no instance is supplied and discovery fails (Error, Abort or
\* Reject while the Who-Is is the only request sent) the loop is stopped and
\* no objectList read is ever sent.
C8_NoReadAfterDiscoveryFailure ==
    discoveryFailed =>
        /\ ~running
        /\ ReadsSent = <<>>

C8_Witness ==
    /\ discoveryFailed
    /\ known_device_instance = None
    /\ sent = <<WhoIsRequest(target)>>
    /\ pc = "exited"

\* C9: of several I-Am received only the first is honored: it triggers exactly
\* one objectList read and later ones cause no further request.
C9_OnlyFirstIAmHonored ==
    (known_device_instance = None /\ IAmsReceived # <<>>) =>
        ReadsSent = <<_read_object_list(IAmsReceived[1].iAmDeviceIdentifier[2],
                                        target)>>

\* C10: the exit status is 0 only on full success and non-zero whenever
\* discovery or the objectList retrieval failed (Error/Abort/Reject, timeout
\* or datatype mismatch).
C10_ExitStatusReflectsOutcome ==
    pc = "exited" =>
        /\ exitStatus = 0 => olReadOutcome = "success"
        /\ (discoveryFailed \/ olReadOutcome \in {"failed", "mismatch"})
               => exitStatus # 0

IsTerminal(apdu) == apdu.type \in ErrorTypes \cup {"ReadPropertyACK"}
IsForwarded(apdu) == ~IsTerminal(apdu) /\ ~IsIAm(apdu)
Handled(apdu)    == received' = Append(received, apdu)
Inbound          == received' # received \/ indications' # indications

\* C11: an inbound message received while the client is idle (no request
\* outstanding, in particular before the first request) is a no-op: no
\* request is sent, the loop is not stopped, the session state is unchanged.
C11_IdleInboundIsNoOp ==
    [][(outstanding = <<>> /\ Inbound) =>
          /\ sent' = sent
          /\ running' = running
          /\ output' = output
          /\ indication' = indication]_vars

\* C12: a ReadPropertyACK whose value is not an ArrayOf is fatal: the loop is
\* stopped, no object list is emitted and no request is sent, in that step or
\* any later one.
C12_MismatchIsFatal ==
    [][/\ \A apdu \in Apdus :
            (Handled(apdu) /\ apdu.type = "ReadPropertyACK"
                           /\ ~apdu.propertyValue.isArrayOf) =>
                (~running' /\ sent' = sent /\ output' = <<>> /\ decoded' = <<>>)
       /\ olReadOutcome = "mismatch" =>
            (~running' /\ sent' = sent /\ output' = <<>>)]_vars

C12_Witness ==
    /\ olReadOutcome = "mismatch"
    /\ known_device_instance = None
    /\ Len(sent) = 2
    /\ pc = "exited"

C14_WhoIsFirstThenRead ==
    known_device_instance = None =>
        /\ sent # <<>> => IsWhoIs(sent[1])
        /\ \A k \in 1..Len(ReadsSent) :
             /\ k <= Len(IAmsReceived)
             /\ ReadsSent[k].objectIdentifier = IAmsReceived[k].iAmDeviceIdentifier
             /\ ReadsSent[k].propertyIdentifier = "objectList"

\* C15: all objectList reads of one session carry the same device instance,
\* and with a supplied instance every read carries exactly that instance,
\* even if an I-Am reports another one.
C15_InstanceResolvedOnce ==
    /\ \A j, k \in 1..Len(ReadsSent) :
         ReadsSent[j].objectIdentifier = ReadsSent[k].objectIdentifier
    /\ known_device_instance # None =>
         \A k \in 1..Len(ReadsSent) :
             ReadsSent[k].objectIdentifier = <<"device", known_device_instance>>

\* C16: every request sent (Who-Is and every ReadProperty) is addressed to the
\* target fixed at construction, and the target never changes.
C16_FixedTarget ==
    /\ [](\A i \in 1..Len(sent) : sent[i].pduDestination = target)
    /\ [][target' = target]_vars

C16_Witness ==
    /\ Len(sent) >= 2
    /\ IsWhoIs(sent[1])
    /\ IsRead(sent[2])
    /\ sent[2].pduDestination = target

\* C17: every terminal response handled by confirmation (ReadPropertyACK of
\* any shape, Error, AbortPDU, RejectPDU) stops the loop exactly once and
\* sends no request; a failed objectList read is never retried.
C17_TerminalStopsOnce ==
    [][/\ \A apdu \in Apdus :
            (Handled(apdu) /\ IsTerminal(apdu)) =>
                (stopCount' = stopCount + 1 /\ ~running' /\ sent' = sent)
       /\ stopCount' <= 1
       /\ olReadOutcome = "failed" => sent' = sent]_vars

C17_Witness ==
    /\ olReadOutcome = "failed"
    /\ stopCount = 1
    /\ received[Len(received)].type = "RejectPDU"
    /\ pc = "exited"

\* C18: kickoff runs at most once per session.  Where it starts from the first
\* indication, that indication triggers it, restores the default handler and
\* is forwarded to it, and later indications only reach the default handler;
\* in the deferred variant kickoff is scheduled exactly once at construction.
C18_KickoffAtMostOnce ==
    /\ kickoffCount <= 1
    /\ forwarded = Len(indications) + Len(SelectSeq(received, IsForwarded))
    /\ variant # "py4" =>
         /\ deferredFns = <<>>
         /\ kickoffCount = (IF indications = <<>> THEN 0 ELSE 1)
         /\ indication = (IF indications = <<>> THEN "override" ELSE "default")
    /\ variant = "py4" =>
         /\ indication = "default"
         /\ kickoffCount + Len(deferredFns) = 1

C18_Witness ==
    /\ variant # "py4"
    /\ Len(indications) = 2
    /\ kickoffCount = 1
    /\ forwarded >= 2

\* C19: once the event loop runs, the session eventually sends its first
\* request even if the remote side sends nothing and the user does nothing.
C19_FirstRequestWithoutInbound ==
    <>(sent # <<>> \/ received # <<>> \/ indications # <<>> \/ interrupted)
====
